---- MODULE Spec2Model ----
(***************************************************************************)
(* The SQL query constructor of eit-db (src/query_builder.go, second half): *)
(* SQLQueryConstructor (the builder), the four SQLDialect implementations   *)
(* and DefaultSQLTranslator (the condition translator).                     *)
(*                                                                          *)
(* SQL text is modelled as the sequence of the strings the code writes to   *)
(* its strings.Builder, each placeholder being a piece of its own; Text     *)
(* concatenates the pieces into the string Build returns.  A nil pointer    *)
(* to int is the empty sequence, a pointer to n is <<n>>; a nil error is    *)
(* the string "nil".                                                        *)
(***************************************************************************)
EXTENDS Integers, Sequences, FiniteSets, TLC

VARIABLES
    qb,     \* the SQLQueryConstructor: schema, dialect, selectedCols, conditions, orderBys, limitVal, offsetVal
    ret,    \* what the last Build returned: [sql, args, err]; NoRet after a builder call
    builds, \* number of Build calls since the last builder call
    last,   \* history, kept under SpecHistory only: the last builder call, when it passed no
            \* condition ("WhereAll()", "WhereAny()", "Where(nil)"), else "other"
    pair,   \* two builders bound to one dialect instance and sharing Condition values
    txn,    \* a QueryBuilder.Transaction call and the repository and Tx it drives
    call    \* a call of a dialect's own TranslateCondition: its inputs and what it returned

vars == <<qb, ret, builds, last, pair, txn, call>>

\* the single builder, and the variables of the other parts of the program
builder == <<qb, ret, builds, last>>
others == <<pair, txn, call>>

(***************************************************************************)
(* Bounds of the model.                                                     *)
(***************************************************************************)
MaxConds == 2       \* top-level conditions held by the builder
MaxChildren == 2    \* conditions passed to one WhereAll / WhereAny call
MaxValues == 3      \* elements of an IN list or of a range operand
MaxCols == 2        \* selected columns
MaxOrder == 1       \* ORDER BY entries
MaxBuilds == 2      \* consecutive Build calls on an unmodified builder
MaxOrderChain == 2  \* ORDER BY entries, where the claim is about their order
MaxTransactions == 4  \* Transaction calls made one after another

(***************************************************************************)
(* fmt.Sprintf("%d", n): the decimal digits of n.                           *)
(***************************************************************************)
Digit(d) == <<"0", "1", "2", "3", "4", "5", "6", "7", "8", "9">>[d + 1]

RECURSIVE Itoa(_)
Itoa(n) ==
    IF n < 0 THEN "-" \o Itoa(-n)
    ELSE IF n < 10 THEN Digit(n)
    ELSE Itoa(n \div 10) \o Digit(n % 10)

\* strings.Join(parts, sep)
RECURSIVE Join(_, _)
Join(parts, sep) ==
    IF parts = <<>> THEN ""
    ELSE IF Len(parts) = 1 THEN parts[1]
    ELSE parts[1] \o sep \o Join(Tail(parts), sep)

\* strings.Builder.String(): the concatenation of everything written
RECURSIVE Text(_)
Text(pieces) == IF pieces = <<>> THEN "" ELSE pieces[1] \o Text(Tail(pieces))

(***************************************************************************)
(* Dialects.  A dialect value is the struct the constructor returns; name   *)
(* stands for the dynamic type the method dispatch goes by.                 *)
(***************************************************************************)
NewMySQLDialect == [name |-> "mysql", parameterStyle |-> "?"]
NewSQLiteDialect == [name |-> "sqlite", parameterStyle |-> "?"]
NewPostgreSQLDialect == [name |-> "postgresql", parameterStyle |-> "$n", nextParamIndex |-> 1]
NewSQLServerDialect == [name |-> "sqlserver", nextParamIndex |-> 1]

Dialects == {NewMySQLDialect, NewSQLiteDialect, NewPostgreSQLDialect, NewSQLServerDialect}

\* The backtick character (0x60), which a TLA+ string literal cannot hold, is
\* written as its escape.
Backtick == "\\x60"

\* A QuoteIdentifier whose PostgreSQL case emits the bare name.
QuoteIdentifierBarePostgres(d, name) ==
    CASE d.name = "postgresql" -> name
      [] d.name = "sqlserver" -> "[" \o name \o "]"
      [] OTHER -> Backtick \o name \o Backtick

QuoteIdentifier(d, name) ==
    CASE d.name = "postgresql" -> "\"" \o name \o "\""
      [] d.name = "sqlserver" -> "[" \o name \o "]"
      [] OTHER -> Backtick \o name \o Backtick

GetPlaceholder(d, index) ==
    CASE d.name = "postgresql" -> "$" \o Itoa(index)
      [] d.name = "sqlserver" -> "@p" \o Itoa(index)
      [] OTHER -> "?"

DefaultGenerateLimitOffset(limit, offset) ==
    LET parts == (IF limit # <<>> THEN <<"LIMIT " \o Itoa(limit[1])>> ELSE <<>>)
                 \o (IF offset # <<>> THEN <<"OFFSET " \o Itoa(offset[1])>> ELSE <<>>)
    IN  Join(parts, " ")

\* A SQL Server clause that forgets the OFFSET a FETCH needs before it.
SQLServerGenerateLimitOffsetBareFetch(limit, offset) ==
    IF limit = <<>> /\ offset = <<>> THEN ""
    ELSE IF offset # <<>>
         THEN "OFFSET " \o Itoa(offset[1]) \o " ROWS"
              \o (IF limit # <<>> THEN " FETCH NEXT " \o Itoa(limit[1]) \o " ROWS ONLY" ELSE "")
         ELSE "FETCH NEXT " \o Itoa(limit[1]) \o " ROWS ONLY"

SQLServerGenerateLimitOffset(limit, offset) ==
    IF limit = <<>> /\ offset = <<>> THEN ""
    ELSE IF offset # <<>>
         THEN "OFFSET " \o Itoa(offset[1]) \o " ROWS"
              \o (IF limit # <<>> THEN " FETCH NEXT " \o Itoa(limit[1]) \o " ROWS ONLY" ELSE "")
         ELSE "OFFSET 0 ROWS FETCH NEXT " \o Itoa(limit[1]) \o " ROWS ONLY"

GenerateLimitOffset(d, limit, offset) ==
    IF d.name = "sqlserver" THEN SQLServerGenerateLimitOffset(limit, offset)
    ELSE DefaultGenerateLimitOffset(limit, offset)

(***************************************************************************)
(* Conditions.  An interface{} value is boxed: a scalar v is [val |-> v],   *)
(* a []interface{} is [elems |-> <<boxed scalars>>].  The three condition   *)
(* structs carry the fields the translator reads: SimpleCondition{Field,    *)
(* Operator, Value}, CompositeCondition{Operator, Conditions},              *)
(* NotCondition{Condition}.  NilCondition is the nil interface value.       *)
(***************************************************************************)
V(x) == [val |-> x]
Slice(xs) == [elems |-> xs]

SimpleCondition(field, operator, value) ==
    [Kind |-> "SimpleCondition", Field |-> field, Operator |-> operator, Value |-> value]
CompositeCondition(operator, conditions) ==
    [Kind |-> "CompositeCondition", Operator |-> operator, Conditions |-> conditions]
NotCondition(condition) ==
    [Kind |-> "NotCondition", Condition |-> condition]
NilCondition == [Kind |-> "nil"]

\* the condition constructors
Eq(field, value) == SimpleCondition(field, "eq", V(value))
Ne(field, value) == SimpleCondition(field, "ne", V(value))
Gt(field, value) == SimpleCondition(field, "gt", V(value))
Lt(field, value) == SimpleCondition(field, "lt", V(value))
Gte(field, value) == SimpleCondition(field, "gte", V(value))
Lte(field, value) == SimpleCondition(field, "lte", V(value))
Like(field, pattern) == SimpleCondition(field, "like", V(pattern))
In(field, values) == SimpleCondition(field, "in", Slice(values))
Between(field, min, max) == SimpleCondition(field, "between", Slice(<<V(min), V(max)>>))
And(conditions) == CompositeCondition("and", conditions)
Or(conditions) == CompositeCondition("or", conditions)
Not(condition) == NotCondition(condition)

(***************************************************************************)
(* DefaultSQLTranslator.  The translator holds the dialect and a pointer to *)
(* the caller's argIndex; the pointer is modelled by threading the index:   *)
(* every translation takes the index it starts at and returns, in idx, the  *)
(* value it leaves in *argIndex.  A result is [sql, args, err, idx].        *)
(***************************************************************************)
NoErr == "nil"

Ok(sql, args, idx) == [sql |-> sql, args |-> args, err |-> NoErr, idx |-> idx]
Fail(err, idx) == [sql |-> <<>>, args |-> <<>>, err |-> err, idx |-> idx]

\* A ScalarOperatorText that writes ne as <>.
ScalarOperatorTextNeAsDiamond(operator) ==
    CASE operator = "eq" -> "= "
      [] operator = "ne" -> "<> "
      [] operator = "gt" -> "> "
      [] operator = "lt" -> "< "
      [] operator = "gte" -> ">= "
      [] operator = "lte" -> "<= "
      [] operator = "like" -> "LIKE "

\* the six operators that take one scalar: the text written before the placeholder
ScalarOperatorText(operator) ==
    CASE operator = "eq" -> "= "
      [] operator = "ne" -> "!= "
      [] operator = "gt" -> "> "
      [] operator = "lt" -> "< "
      [] operator = "gte" -> ">= "
      [] operator = "lte" -> "<= "
      [] operator = "like" -> "LIKE "

ScalarOperators == {"eq", "ne", "gt", "lt", "gte", "lte", "like"}

\* case "in": the loop over values, one placeholder per element
RECURSIVE InPlaceholders(_, _, _)
InPlaceholders(d, n, idx) ==
    IF n = 0 THEN <<>>
    ELSE InPlaceholders(d, n - 1, idx)
         \o (IF n > 1 THEN <<", ">> ELSE <<>>)
         \o <<GetPlaceholder(d, idx + n - 1)>>

\* A translateSimpleCondition that writes the pattern of a like condition
\* into the text as a literal.
translateSimpleConditionInliningLike(d, cond, idx) ==
    LET head == <<QuoteIdentifier(d, cond.Field), " ">>
    IN  CASE cond.Operator = "like" ->
               Ok(head \o <<"LIKE ", "'" \o cond.Value.val \o "'">>, <<>>, idx)
          [] cond.Operator \in ScalarOperators \ {"like"} ->
               Ok(head \o <<ScalarOperatorText(cond.Operator), GetPlaceholder(d, idx)>>,
                  <<cond.Value>>, idx + 1)
          [] cond.Operator = "in" ->
               LET values == cond.Value.elems
               IN  Ok(head \o <<"IN (">> \o InPlaceholders(d, Len(values), idx) \o <<")">>,
                      values, idx + Len(values))
          [] cond.Operator = "between" ->
               LET minMax == cond.Value.elems
               IN  Ok(head \o <<"BETWEEN ", GetPlaceholder(d, idx), " AND ", GetPlaceholder(d, idx + 1)>>,
                      minMax, idx + 2)
          [] OTHER -> Fail("unsupported operator", idx)

translateSimpleCondition(d, cond, idx) ==
    LET head == <<QuoteIdentifier(d, cond.Field), " ">>
    IN  CASE cond.Operator \in ScalarOperators ->
               Ok(head \o <<ScalarOperatorText(cond.Operator), GetPlaceholder(d, idx)>>,
                  <<cond.Value>>, idx + 1)
          [] cond.Operator = "in" ->
               LET values == cond.Value.elems
               IN  Ok(head \o <<"IN (">> \o InPlaceholders(d, Len(values), idx) \o <<")">>,
                      values, idx + Len(values))
          [] cond.Operator = "between" ->
               LET minMax == cond.Value.elems
               IN  Ok(head \o <<"BETWEEN ", GetPlaceholder(d, idx), " AND ", GetPlaceholder(d, idx + 1)>>,
                      minMax, idx + 2)
          [] OTHER -> Fail("unsupported operator", idx)

RECURSIVE TranslateCondition(_, _, _)
RECURSIVE Translate(_, _, _)
RECURSIVE TranslateComposite(_, _, _, _)
RECURSIVE TranslateCompositeLoop(_, _, _, _, _)
RECURSIVE translateNotCondition(_, _, _)

\* Condition.Translate(translator): each condition hands itself to the translator
Translate(d, condition, idx) == TranslateCondition(d, condition, idx)

\* the for loop of TranslateComposite from child i on; acc holds sql and args so far
TranslateCompositeLoop(d, sqlOperator, conditions, i, acc) ==
    IF i > Len(conditions) THEN Ok(acc.sql \o <<")">>, acc.args, acc.idx)
    ELSE LET r == Translate(d, conditions[i], acc.idx)
         IN  IF r.err # NoErr THEN Fail(r.err, r.idx)
             ELSE TranslateCompositeLoop(d, sqlOperator, conditions, i + 1,
                      [sql |-> acc.sql
                                 \o (IF i > 1 THEN <<" " \o sqlOperator \o " ">> ELSE <<>>)
                                 \o r.sql,
                       args |-> acc.args \o r.args,
                       idx |-> r.idx])

\* A TranslateComposite that leaves out the parentheses around a single child.
TranslateCompositeBareSingle(d, operator, conditions, idx) ==
    IF Len(conditions) = 0
    THEN Fail("composite condition must have at least one condition", idx)
    ELSE IF Len(conditions) = 1 THEN Translate(d, conditions[1], idx)
    ELSE LET sqlOperator == IF operator = "or" THEN "OR" ELSE "AND"
         IN  TranslateCompositeLoop(d, sqlOperator, conditions, 1,
                                    [sql |-> <<"(">>, args |-> <<>>, idx |-> idx])

TranslateComposite(d, operator, conditions, idx) ==
    IF Len(conditions) = 0
    THEN Fail("composite condition must have at least one condition", idx)
    ELSE LET sqlOperator == IF operator = "or" THEN "OR" ELSE "AND"
         IN  TranslateCompositeLoop(d, sqlOperator, conditions, 1,
                                    [sql |-> <<"(">>, args |-> <<>>, idx |-> idx])

translateCompositeCondition(d, cond, idx) ==
    TranslateComposite(d, cond.Operator, cond.Conditions, idx)

\* A negation that takes one index for itself.
translateNotConditionTakingIndex(d, cond, idx) ==
    LET r == Translate(d, cond.Condition, idx)
    IN  IF r.err # NoErr THEN Fail(r.err, r.idx)
        ELSE Ok(<<"NOT (">> \o r.sql \o <<")">>, r.args, r.idx + 1)

translateNotCondition(d, cond, idx) ==
    LET r == Translate(d, cond.Condition, idx)
    IN  IF r.err # NoErr THEN Fail(r.err, r.idx)
        ELSE Ok(<<"NOT (">> \o r.sql \o <<")">>, r.args, r.idx)

\* A TranslateCondition that renders a condition of an unknown type as a
\* condition that is always true.
TranslateConditionSkippingUnknown(d, condition, idx) ==
    CASE condition.Kind = "SimpleCondition" -> translateSimpleCondition(d, condition, idx)
      [] condition.Kind = "CompositeCondition" -> translateCompositeCondition(d, condition, idx)
      [] condition.Kind = "NotCondition" -> translateNotCondition(d, condition, idx)
      [] OTHER -> Ok(<<"1 = 1">>, <<>>, idx)

TranslateCondition(d, condition, idx) ==
    CASE condition.Kind = "SimpleCondition" -> translateSimpleCondition(d, condition, idx)
      [] condition.Kind = "CompositeCondition" -> translateCompositeCondition(d, condition, idx)
      [] condition.Kind = "NotCondition" -> translateNotCondition(d, condition, idx)
      [] OTHER -> Fail("unknown condition type", idx)

(***************************************************************************)
(* SQLQueryConstructor.                                                     *)
(***************************************************************************)
NilDialect == [name |-> "nil"]

NewSQLQueryConstructor(schema, dialect) ==
    [schema |-> schema,
     dialect |-> IF dialect = NilDialect
                 THEN [name |-> "mysql", parameterStyle |-> "?"]
                 ELSE dialect,
     selectedCols |-> <<>>,
     conditions |-> <<>>,
     orderBys |-> <<>>,
     limitVal |-> <<>>,
     offsetVal |-> <<>>]

\* NewBaseSchema(tableName); NilSchema is the nil Schema interface value
NewBaseSchema(tableName) == [tableName |-> tableName]
NilSchema == [nil |-> TRUE]

\* BaseSchema.TableName()
TableName(schema) == schema.tableName

\* the run-time panic of a method call on a nil interface value
Panic == "panic: runtime error: invalid memory address or nil pointer dereference"

\* strings.ToUpper on the direction strings the model passes to OrderBy
ToUpper(s) ==
    CASE s = "asc" -> "ASC"
      [] s = "desc" -> "DESC"
      [] s = "random" -> "RANDOM"
      [] s = "Desc" -> "DESC"
      [] s = "; DROP TABLE users" -> "; DROP TABLE USERS"
      [] OTHER -> s

\* Build, SELECT part: the loop over selectedCols
RECURSIVE BuildSelectLoop(_, _, _)
BuildSelectLoop(d, cols, i) ==
    IF i > Len(cols) THEN <<>>
    ELSE (IF i > 1 THEN <<", ">> ELSE <<>>)
         \o <<QuoteIdentifier(d, cols[i])>>
         \o BuildSelectLoop(d, cols, i + 1)

\* A WHERE loop that joins the top-level conditions with OR.
RECURSIVE BuildWhereLoopJoiningWithOr(_, _, _, _)
BuildWhereLoopJoiningWithOr(d, conditions, i, acc) ==
    IF i > Len(conditions) THEN Ok(acc.sql, acc.args, acc.idx)
    ELSE LET r == Translate(d, conditions[i], acc.idx)
         IN  IF r.err # NoErr
             THEN Fail("failed to translate condition: " \o r.err, r.idx)
             ELSE BuildWhereLoopJoiningWithOr(d, conditions, i + 1,
                      [sql |-> acc.sql \o (IF i > 1 THEN <<" OR ">> ELSE <<>>) \o r.sql,
                       args |-> acc.args \o r.args,
                       idx |-> r.idx])

\* Build, WHERE part: the loop over qb.conditions from condition i on
RECURSIVE BuildWhereLoop(_, _, _, _)
BuildWhereLoop(d, conditions, i, acc) ==
    IF i > Len(conditions) THEN Ok(acc.sql, acc.args, acc.idx)
    ELSE LET r == Translate(d, conditions[i], acc.idx)
         IN  IF r.err # NoErr
             THEN Fail("failed to translate condition: " \o r.err, r.idx)
             ELSE BuildWhereLoop(d, conditions, i + 1,
                      [sql |-> acc.sql \o (IF i > 1 THEN <<" AND ">> ELSE <<>>) \o r.sql,
                       args |-> acc.args \o r.args,
                       idx |-> r.idx])

\* An ORDER BY loop that writes the field without quoting it.
RECURSIVE BuildOrderLoopBareField(_, _, _)
BuildOrderLoopBareField(d, orderBys, i) ==
    IF i > Len(orderBys) THEN <<>>
    ELSE (IF i > 1 THEN <<", ">> ELSE <<>>)
         \o <<orderBys[i].Field, " ", orderBys[i].Direction>>
         \o BuildOrderLoopBareField(d, orderBys, i + 1)

\* Build, ORDER BY part: the loop over qb.orderBys
RECURSIVE BuildOrderLoop(_, _, _)
BuildOrderLoop(d, orderBys, i) ==
    IF i > Len(orderBys) THEN <<>>
    ELSE (IF i > 1 THEN <<", ">> ELSE <<>>)
         \o <<QuoteIdentifier(d, orderBys[i].Field), " ", orderBys[i].Direction>>
         \o BuildOrderLoop(d, orderBys, i + 1)

\* var argIndex int = 1
FirstArgIndex == 1

\* A Build that writes ORDER BY before WHERE.
BuildFromOrderBeforeWhere(q, first) ==
    LET d == q.dialect
        selectPart == <<"SELECT ">>
                      \o (IF Len(q.selectedCols) > 0
                          THEN BuildSelectLoop(d, q.selectedCols, 1)
                          ELSE <<"*">>)
        fromPart == IF q.schema = NilSchema THEN <<>>
                    ELSE <<" FROM ", QuoteIdentifier(d, TableName(q.schema))>>
        where == IF Len(q.conditions) > 0
                 THEN BuildWhereLoop(d, q.conditions, 1,
                                     [sql |-> <<" WHERE ">>, args |-> <<>>, idx |-> first])
                 ELSE Ok(<<>>, <<>>, first)
        orderPart == IF Len(q.orderBys) > 0
                     THEN <<" ORDER BY ">> \o BuildOrderLoop(d, q.orderBys, 1)
                     ELSE <<>>
        limitOffset == GenerateLimitOffset(d, q.limitVal, q.offsetVal)
        limitPart == IF limitOffset # "" THEN <<" ", limitOffset>> ELSE <<>>
    IN  IF q.schema = NilSchema
        THEN [sql |-> <<>>, args |-> <<>>, err |-> Panic, idx |-> first]
        ELSE IF where.err # NoErr
        THEN [sql |-> <<>>, args |-> <<>>, err |-> where.err, idx |-> where.idx]
        ELSE [sql |-> selectPart \o fromPart \o orderPart \o where.sql \o limitPart,
              args |-> where.args,
              err |-> NoErr,
              idx |-> where.idx]

\* A Build that returns, when a condition fails, the text written so far.
BuildFromReturningPartial(q, first) ==
    LET d == q.dialect
        selectPart == <<"SELECT ">>
                      \o (IF Len(q.selectedCols) > 0
                          THEN BuildSelectLoop(d, q.selectedCols, 1)
                          ELSE <<"*">>)
        fromPart == IF q.schema = NilSchema THEN <<>>
                    ELSE <<" FROM ", QuoteIdentifier(d, TableName(q.schema))>>
        where == IF Len(q.conditions) > 0
                 THEN BuildWhereLoop(d, q.conditions, 1,
                                     [sql |-> <<" WHERE ">>, args |-> <<>>, idx |-> first])
                 ELSE Ok(<<>>, <<>>, first)
        orderPart == IF Len(q.orderBys) > 0
                     THEN <<" ORDER BY ">> \o BuildOrderLoop(d, q.orderBys, 1)
                     ELSE <<>>
        limitOffset == GenerateLimitOffset(d, q.limitVal, q.offsetVal)
        limitPart == IF limitOffset # "" THEN <<" ", limitOffset>> ELSE <<>>
    IN  IF q.schema = NilSchema
        THEN [sql |-> <<>>, args |-> <<>>, err |-> Panic, idx |-> first]
        ELSE IF where.err # NoErr
        THEN [sql |-> selectPart \o fromPart \o <<" WHERE ">>, args |-> <<>>, err |-> where.err, idx |-> where.idx]
        ELSE [sql |-> selectPart \o fromPart \o where.sql \o orderPart \o limitPart,
              args |-> where.args,
              err |-> NoErr,
              idx |-> where.idx]

\* The body of Build for the builder q with argIndex starting at first:
\* [sql, args, err], and in idx the final argIndex.  On a nil schema the call
\* qb.schema.TableName() panics and Build returns nothing; err then holds Panic.
BuildFrom(q, first) ==
    LET d == q.dialect
        selectPart == <<"SELECT ">>
                      \o (IF Len(q.selectedCols) > 0
                          THEN BuildSelectLoop(d, q.selectedCols, 1)
                          ELSE <<"*">>)
        fromPart == IF q.schema = NilSchema THEN <<>>
                    ELSE <<" FROM ", QuoteIdentifier(d, TableName(q.schema))>>
        where == IF Len(q.conditions) > 0
                 THEN BuildWhereLoop(d, q.conditions, 1,
                                     [sql |-> <<" WHERE ">>, args |-> <<>>, idx |-> first])
                 ELSE Ok(<<>>, <<>>, first)
        orderPart == IF Len(q.orderBys) > 0
                     THEN <<" ORDER BY ">> \o BuildOrderLoop(d, q.orderBys, 1)
                     ELSE <<>>
        limitOffset == GenerateLimitOffset(d, q.limitVal, q.offsetVal)
        limitPart == IF limitOffset # "" THEN <<" ", limitOffset>> ELSE <<>>
    IN  IF q.schema = NilSchema
        THEN [sql |-> <<>>, args |-> <<>>, err |-> Panic, idx |-> first]
        ELSE IF where.err # NoErr
        THEN [sql |-> <<>>, args |-> <<>>, err |-> where.err, idx |-> where.idx]
        ELSE [sql |-> selectPart \o fromPart \o where.sql \o orderPart \o limitPart,
              args |-> where.args,
              err |-> NoErr,
              idx |-> where.idx]

\* What Build returns for the builder q: (sql, args, err).
BuildReturn(q) ==
    LET r == BuildFrom(q, FirstArgIndex)
    IN  [sql |-> r.sql, args |-> r.args, err |-> r.err]

(***************************************************************************)
(* The values the model passes to the builder calls.                        *)
(***************************************************************************)
\* k distinct operand values
Vals(k) == [i \in 1..k |-> V(Itoa(17 + i))]

\* a Condition of a type the translator does not know
RawCondition == [Kind |-> "RawCondition"]

\* conditions passed to Where: well-formed and malformed, flat and nested
WherePool ==
    <<Eq("name", "John"),
      In("age", Vals(0)),
      In("age", Vals(MaxValues)),
      Between("age", "18", "65"),
      SimpleCondition("age", "between", Slice(Vals(1))),
      SimpleCondition("age", "between", Slice(Vals(MaxValues))),
      SimpleCondition("name", "regex", V("^J")),
      Not(Or(<<Gt("age", "18"), And(<<Like("name", "J%")>>), Lt("age", "65")>>)),
      And(<<>>),
      RawCondition,
      Not(SimpleCondition("name", "regex", V("^J"))),
      Or(<<Eq("status", "active"), Not(And(<<>>))>>),
      And(<<Eq("status", "active"), RawCondition>>)>>

\* the i-th condition passed to a WhereAll call and to a WhereAny call
AllChild(i) == IF i % 2 = 1 THEN Ne("name", "John") ELSE Gte("age", "18")
AnyChild(i) == IF i % 2 = 1 THEN Eq("status", "active") ELSE And(<<Lte("age", "65")>>)

AllChildren(k) == [i \in 1..k |-> AllChild(i)]
AnyChildren(k) == [i \in 1..k |-> AnyChild(i)]

SelectInputs == {<<"id">>, <<"name", "email">>, <<>>}
OrderInputs == {<<"age", "DESC">>, <<"name", "asc">>, <<"name", "random">>}
\* further OrderBy calls: mixed case, no direction, text that is not a direction
OrderChainInputs == {<<"id", "Desc">>, <<"email", "">>, <<"age", "; DROP TABLE users">>}
LimitInputs == {0, 10}
OffsetInputs == {0, 20}

NoRet == [sql |-> <<>>, args |-> <<>>, err |-> "not built"]

(***************************************************************************)
(* The state machine: one builder, bound to its dialect at construction,    *)
(* receiving builder calls and Build calls in any order.                    *)
(***************************************************************************)
\* no pair of builders, no transaction, no dialect call
NoPair == [dialect |-> NilDialect]
NoTxn == [pc |-> "none"]
NoCall == [made |-> FALSE]

ConstructedOn(schemas) ==
    /\ \E schema \in schemas, dialect \in Dialects \cup {NilDialect} :
           qb = NewSQLQueryConstructor(schema, dialect)
    /\ ret = NoRet
    /\ builds = 0
    /\ pair = NoPair
    /\ txn = NoTxn
    /\ call = NoCall

Constructed == ConstructedOn({NewBaseSchema("users")})

Init == Constructed /\ last = "untracked"

InitHistory == Constructed /\ last = "other"

\* the calls each history records, and what it holds after any other call
WhereCalls == {"Where(nil)", "WhereAll()", "WhereAny()"}
LimitCall(count) == "Limit(" \o Itoa(count) \o ")"
OffsetCall(count) == "Offset(" \o Itoa(count) \o ")"
PaginationCalls == {LimitCall(n) : n \in LimitInputs} \cup {OffsetCall(m) : m \in OffsetInputs}
SelectCall(fields) == "Select(" \o Join(fields, ", ") \o ")"
SelectCalls == {SelectCall(fields) : fields \in SelectInputs}
NotPagination == "not Limit or Offset"
NotSelect == "not Select"
GroupCalls == {"Where", "WhereAll", "WhereAny"}
NotGroup == "no condition attached"
OrderCall(field, direction) == "OrderBy(" \o field \o ", " \o direction \o ")"
OrderCalls == {OrderCall(o[1], o[2]) : o \in OrderInputs \cup OrderChainInputs}
NotOrder == "not OrderBy"

InitPagination == Constructed /\ last = NotPagination

InitSelect == Constructed /\ last = NotSelect

\* a builder constructed without a table: an empty table name, a nil schema
InitNoTable == ConstructedOn({NewBaseSchema(""), NilSchema}) /\ last = "untracked"

\* a builder call returned: the values of an earlier Build are no longer current
Called(made) ==
    /\ ret' = NoRet
    /\ builds' = 0
    /\ last' = CASE last = "untracked" -> last
               [] last \in WhereCalls \cup {"other"} ->
                      IF made \in WhereCalls THEN made ELSE "other"
               [] last \in PaginationCalls \cup {NotPagination} ->
                      IF made \in PaginationCalls THEN made ELSE NotPagination
               [] last \in GroupCalls \cup {NotGroup} ->
                      IF made \in GroupCalls THEN made ELSE NotGroup
               [] last \in OrderCalls \cup {NotOrder} ->
                      IF made \in OrderCalls THEN made ELSE NotOrder
               [] OTHER -> IF made \in SelectCalls THEN made ELSE NotSelect
    /\ UNCHANGED others


Where(condition) ==
    /\ condition # NilCondition => Len(qb.conditions) < MaxConds
    /\ qb' = IF condition # NilCondition
             THEN [qb EXCEPT !.conditions = Append(@, condition)]
             ELSE qb
    /\ Called(IF condition = NilCondition THEN "Where(nil)" ELSE "Where")

\* A WhereAll that attaches each condition on its own.
WhereAllFlattening(conditions) ==
    /\ Len(conditions) > 0 => Len(qb.conditions) < MaxConds
    /\ qb' = [qb EXCEPT !.conditions =
                  @ \o SelectSeq(conditions, LAMBDA c : Len(@) + Len(conditions) <= MaxConds \/ c = conditions[1])]
    /\ Called(IF Len(conditions) = 0 THEN "WhereAll()" ELSE "WhereAll")

\* A WhereAll without the guard on the number of conditions.
WhereAllUnguarded(conditions) ==
    /\ Len(qb.conditions) < MaxConds
    /\ qb' = [qb EXCEPT !.conditions = Append(@, And(conditions))]
    /\ Called(IF Len(conditions) = 0 THEN "WhereAll()" ELSE "WhereAll")

WhereAll(conditions) ==
    /\ Len(conditions) > 0 => Len(qb.conditions) < MaxConds
    /\ qb' = IF Len(conditions) > 0
             THEN [qb EXCEPT !.conditions = Append(@, And(conditions))]
             ELSE qb
    /\ Called(IF Len(conditions) = 0 THEN "WhereAll()" ELSE "WhereAll")

\* A WhereAny without the guard on the number of conditions.
WhereAnyUnguarded(conditions) ==
    /\ Len(qb.conditions) < MaxConds
    /\ qb' = [qb EXCEPT !.conditions = Append(@, Or(conditions))]
    /\ Called(IF Len(conditions) = 0 THEN "WhereAny()" ELSE "WhereAny")

WhereAny(conditions) ==
    /\ Len(conditions) > 0 => Len(qb.conditions) < MaxConds
    /\ qb' = IF Len(conditions) > 0
             THEN [qb EXCEPT !.conditions = Append(@, Or(conditions))]
             ELSE qb
    /\ Called(IF Len(conditions) = 0 THEN "WhereAny()" ELSE "WhereAny")

\* A Select that replaces the column list instead of appending to it.
SelectReplacing(fields) ==
    /\ Len(qb.selectedCols) + Len(fields) <= MaxCols
    /\ qb' = [qb EXCEPT !.selectedCols = fields]
    /\ Called(SelectCall(fields))

Select(fields) ==
    /\ Len(qb.selectedCols) + Len(fields) <= MaxCols
    /\ qb' = [qb EXCEPT !.selectedCols = @ \o fields]
    /\ Called(SelectCall(fields))

\* An OrderBy that stores the direction it is given, in upper case.
OrderByKeepingDirection(field, direction, bound) ==
    /\ Len(qb.orderBys) < bound
    /\ qb' = [qb EXCEPT !.orderBys = Append(@, [Field |-> field, Direction |-> ToUpper(direction)])]
    /\ Called(OrderCall(field, direction))

\* OrderBy on a builder that holds fewer than bound entries
OrderByUpTo(field, direction, bound) ==
    /\ Len(qb.orderBys) < bound
    /\ LET upper == ToUpper(direction)
           dir == IF upper # "ASC" /\ upper # "DESC" THEN "ASC" ELSE upper
       IN  qb' = [qb EXCEPT !.orderBys = Append(@, [Field |-> field, Direction |-> dir])]
    /\ Called(OrderCall(field, direction))

OrderBy(field, direction) == OrderByUpTo(field, direction, MaxOrder)

\* A Limit that takes a count of zero for no limit at all.
LimitIgnoringZero(count) ==
    /\ qb' = IF count = 0 THEN qb ELSE [qb EXCEPT !.limitVal = <<count>>]
    /\ Called(LimitCall(count))

\* A Limit that adds its count to the limit the builder holds.
LimitAccumulating(count) ==
    /\ qb' = [qb EXCEPT !.limitVal = IF @ = <<>> THEN <<count>> ELSE <<@[1] + count>>]
    /\ Called(LimitCall(count))

Limit(count) ==
    /\ qb' = [qb EXCEPT !.limitVal = <<count>>]
    /\ Called(LimitCall(count))

Offset(count) ==
    /\ qb' = [qb EXCEPT !.offsetVal = <<count>>]
    /\ Called(OffsetCall(count))

\* A Build that keeps the placeholder counter in the dialect's nextParamIndex
\* field instead of a local variable.
BuildCountingInDialect ==
    /\ builds < MaxBuilds
    /\ LET stateful == "nextParamIndex" \in DOMAIN qb.dialect
           r == BuildFrom(qb, IF stateful THEN qb.dialect.nextParamIndex ELSE FirstArgIndex)
       IN  /\ ret' = [sql |-> r.sql, args |-> r.args, err |-> r.err]
           /\ qb' = IF stateful THEN [qb EXCEPT !.dialect.nextParamIndex = r.idx] ELSE qb
    /\ builds' = builds + 1
    /\ UNCHANGED <<last, others>>

\* A Build that consumes the conditions it has rendered.
BuildDrainingConditions ==
    /\ builds < MaxBuilds
    /\ ret' = BuildReturn(qb)
    /\ qb' = [qb EXCEPT !.conditions = <<>>]
    /\ builds' = builds + 1
    /\ UNCHANGED <<last, others>>

Build ==
    /\ builds < MaxBuilds
    /\ ret' = BuildReturn(qb)
    /\ builds' = builds + 1
    /\ UNCHANGED <<qb, last, others>>

Next ==
    \/ \E i \in 1..Len(WherePool) : Where(WherePool[i])
    \/ Where(NilCondition)
    \/ \E k \in 0..MaxChildren : WhereAll(AllChildren(k))
    \/ \E k \in 0..MaxChildren : WhereAny(AnyChildren(k))
    \/ \E fields \in SelectInputs : Select(fields)
    \/ \E o \in OrderInputs : OrderBy(o[1], o[2])
    \/ \E count \in LimitInputs : Limit(count)
    \/ \E count \in OffsetInputs : Offset(count)
    \/ Build

Spec == Init /\ [][Next]_vars

\* the same machine, recording which builder call came last
SpecHistory == InitHistory /\ [][Next]_vars

\* the same machine, recording the Limit or Offset call that came last
SpecPagination == InitPagination /\ [][Next]_vars

\* the same machine, recording the Select call that came last
SpecSelect == InitSelect /\ [][Next]_vars

\* the same machine on a builder constructed without a table
SpecNoTable == InitNoTable /\ [][Next]_vars

\* the builder called with counts of either sign
SignedInputs == {-5, 0, 10}

NextSigned ==
    \/ Where(WherePool[1])
    \/ \E fields \in SelectInputs : Select(fields)
    \/ \E o \in OrderInputs : OrderBy(o[1], o[2])
    \/ \E count \in SignedInputs : Limit(count)
    \/ \E count \in SignedInputs : Offset(count)
    \/ Build

SpecSigned == Init /\ [][NextSigned]_vars

\* the builder receiving OrderBy calls of every kind, recording the last one
InitOrder == Constructed /\ last = NotOrder

NextOrder ==
    \/ \E o \in OrderInputs \cup OrderChainInputs : OrderByUpTo(o[1], o[2], MaxOrderChain)
    \/ Where(WherePool[1])
    \/ \E count \in LimitInputs : Limit(count)
    \/ Build

SpecOrder == InitOrder /\ [][NextOrder]_vars

\* the conditions a and b of the calls Where(a).Where(b), WhereAll(a, b) and
\* WhereAny(a, b), and the argument lists of the variadic calls
GroupPool == <<Eq("name", "John"), In("age", Vals(MaxValues - 1)), Not(Between("age", "18", "65"))>>
GroupInputs ==
    {<<GroupPool[i]>> : i \in 1..Len(GroupPool)}
        \cup {<<GroupPool[i], GroupPool[j]>> : i, j \in 1..Len(GroupPool)}

\* the builder under Where, WhereAll and WhereAny calls, recording the last
InitGroup == Constructed /\ last = NotGroup

NextGroup ==
    \/ \E i \in 1..Len(GroupPool) : Where(GroupPool[i])
    \/ \E conditions \in GroupInputs : WhereAll(conditions)
    \/ \E conditions \in GroupInputs : WhereAny(conditions)
    \/ \E count \in LimitInputs : Limit(count)
    \/ Build

SpecGroup == InitGroup /\ [][NextGroup]_vars

(***************************************************************************)
(* The dialects' own TranslateCondition(condition, argIndex).  MySQL,       *)
(* SQLite and PostgreSQL inherit the method of the DefaultSQLDialect they   *)
(* embed, whose receiver is that embedded struct; SQL Server has its own.   *)
(* Both hand the condition to a translator built with the receiver and no   *)
(* argIndex pointer, and never read the argIndex they were passed.          *)
(***************************************************************************)
\* the dialect the translator is built with
Receiver(d) ==
    IF d.name = "sqlserver" THEN d
    ELSE [name |-> "DefaultSQLDialect", parameterStyle |-> d.parameterStyle]

\* The call on dialect d with the caller's counter holding argIndex; idx is
\* what the caller's counter holds afterwards.  The translator reads its nil
\* argIndex pointer exactly where it writes a placeholder, and adds one to
\* it each time: a translation that moves the index has read it.
DialectTranslateCondition(d, condition, argIndex) ==
    LET r == Translate(Receiver(d), condition, argIndex)
    IN  IF r.idx # argIndex
        THEN [sql |-> <<>>, args |-> <<>>, err |-> Panic, idx |-> argIndex]
        ELSE [r EXCEPT !.idx = argIndex]

\* conditions passed to a dialect and values of the caller's counter
CallConds ==
    {Eq("name", "John"), Ne("name", "John"), Gt("age", "18"), Lt("age", "65"),
     Gte("age", "18"), Lte("age", "65"), Like("name", "J%"),
     In("age", Vals(0)), In("age", Vals(MaxValues)), Between("age", "18", "65"),
     SimpleCondition("name", "regex", V("^J")),
     And(<<Eq("name", "John")>>), Not(Eq("name", "John"))}
CallIndexes == 1..3

\* a caller holding the builder's dialect calls its TranslateCondition
DialectCall(condition, argIndex) ==
    /\ LET r == DialectTranslateCondition(qb.dialect, condition, argIndex)
       IN  call' = [made |-> TRUE, condition |-> condition, before |-> argIndex,
                    sql |-> r.sql, args |-> r.args, err |-> r.err, argIndex |-> r.idx]
    /\ UNCHANGED <<builder, pair, txn>>

NextCall == \E condition \in CallConds, argIndex \in CallIndexes : DialectCall(condition, argIndex)

SpecCall == Init /\ [][NextCall]_vars

(***************************************************************************)
(* Two builders, each owned by one goroutine, bound to the same dialect     *)
(* instance and attaching the same Condition values.  pair.dialect is the   *)
(* shared dialect struct, pair.conds the shared Condition values; a builder *)
(* holds references (indices) to them.  Build is taken apart into the steps *)
(* between which the other goroutine can run: its start, the translation of *)
(* one top-level condition, its end.  sql, args, argIndex and i are the     *)
(* local variables of the running Build.                                    *)
(***************************************************************************)
Builders == {1, 2}

\* the Condition values both builders attach
SharedConds ==
    <<Eq("name", "John"),
      In("age", Vals(MaxValues)),
      Not(Or(<<Gt("age", "18"), And(<<Like("name", "J%")>>)>>)),
      SimpleCondition("name", "regex", V("^J"))>>

NewPairBuilder ==
    [qb |-> [schema |-> NewBaseSchema("users"), selectedCols |-> <<>>, conditions |-> <<>>,
             orderBys |-> <<>>, limitVal |-> <<>>, offsetVal |-> <<>>],
     pc |-> "idle", i |-> 0, argIndex |-> 0, sql |-> <<>>, args |-> <<>>, ret |-> NoRet]

\* the builder b as a SQLQueryConstructor value: its dialect and conditions dereferenced
PairBuilder(b) ==
    LET q == pair.b[b].qb
    IN  [schema |-> q.schema,
         dialect |-> pair.dialect,
         selectedCols |-> q.selectedCols,
         conditions |-> [k \in 1..Len(q.conditions) |-> pair.conds[q.conditions[k]]],
         orderBys |-> q.orderBys,
         limitVal |-> q.limitVal,
         offsetVal |-> q.offsetVal]

Idle ==
    /\ qb = NewSQLQueryConstructor(NewBaseSchema("users"), NilDialect)
    /\ ret = NoRet
    /\ builds = 0
    /\ last = "untracked"

InitPair ==
    /\ Idle
    /\ \E dialect \in Dialects :
           pair = [dialect |-> dialect, conds |-> SharedConds,
                   b |-> [b \in Builders |-> NewPairBuilder]]
    /\ txn = NoTxn
    /\ call = NoCall

PairFrame == UNCHANGED <<builder, txn, call>>

\* builder b: Where(the k-th shared condition)
PairWhere(b, k) ==
    /\ pair.b[b].pc = "idle"
    /\ Len(pair.b[b].qb.conditions) < MaxConds
    /\ pair' = [pair EXCEPT !.b[b].qb.conditions = Append(@, k), !.b[b].ret = NoRet]
    /\ PairFrame

\* builder b: Limit(count)
PairLimit(b, count) ==
    /\ pair.b[b].pc = "idle"
    /\ pair' = [pair EXCEPT !.b[b].qb.limitVal = <<count>>, !.b[b].ret = NoRet]
    /\ PairFrame

\* builder b: Build, from its entry to the start of the loop over conditions
PairBuildBegin(b) ==
    /\ pair.b[b].pc = "idle"
    /\ LET q == PairBuilder(b)
           selectPart == <<"SELECT ">>
                         \o (IF Len(q.selectedCols) > 0
                             THEN BuildSelectLoop(q.dialect, q.selectedCols, 1)
                             ELSE <<"*">>)
           fromPart == <<" FROM ", QuoteIdentifier(q.dialect, TableName(q.schema))>>
       IN  pair' = [pair EXCEPT !.b[b].pc = "where",
                                !.b[b].i = 1,
                                !.b[b].argIndex = FirstArgIndex,
                                !.b[b].args = <<>>,
                                !.b[b].ret = NoRet,
                                !.b[b].sql = selectPart \o fromPart
                                    \o (IF Len(q.conditions) > 0 THEN <<" WHERE ">> ELSE <<>>)]
    /\ PairFrame

\* A loop body that takes the placeholder index from the nextParamIndex field
\* of the dialect, when it has one, and keeps it there.
PairBuildConditionCountingInDialect(b) ==
    /\ pair.b[b].pc = "where"
    /\ pair.b[b].i <= Len(pair.b[b].qb.conditions)
    /\ LET p == pair.b[b]
           stateful == "nextParamIndex" \in DOMAIN pair.dialect
           r == Translate(pair.dialect, pair.conds[p.qb.conditions[p.i]],
                          IF stateful THEN pair.dialect.nextParamIndex ELSE p.argIndex)
           d == IF stateful THEN [pair.dialect EXCEPT !.nextParamIndex = r.idx] ELSE pair.dialect
       IN  IF r.err # NoErr
           THEN pair' = [pair EXCEPT !.b[b].pc = "idle", !.b[b].sql = <<>>, !.b[b].args = <<>>,
                                     !.b[b].ret = [sql |-> <<>>, args |-> <<>>,
                                                   err |-> "failed to translate condition: " \o r.err]]
           ELSE pair' = [pair EXCEPT !.dialect = d,
                                     !.b[b].sql = @ \o (IF p.i > 1 THEN <<" AND ">> ELSE <<>>) \o r.sql,
                                     !.b[b].args = @ \o r.args,
                                     !.b[b].argIndex = r.idx,
                                     !.b[b].i = @ + 1]
    /\ PairFrame

\* builder b: Build, one turn of the loop over conditions
PairBuildCondition(b) ==
    /\ pair.b[b].pc = "where"
    /\ pair.b[b].i <= Len(pair.b[b].qb.conditions)
    /\ LET p == pair.b[b]
           r == Translate(pair.dialect, pair.conds[p.qb.conditions[p.i]], p.argIndex)
       IN  IF r.err # NoErr
           THEN pair' = [pair EXCEPT !.b[b].pc = "idle", !.b[b].sql = <<>>, !.b[b].args = <<>>,
                                     !.b[b].ret = [sql |-> <<>>, args |-> <<>>,
                                                   err |-> "failed to translate condition: " \o r.err]]
           ELSE pair' = [pair EXCEPT !.b[b].sql = @ \o (IF p.i > 1 THEN <<" AND ">> ELSE <<>>) \o r.sql,
                                     !.b[b].args = @ \o r.args,
                                     !.b[b].argIndex = r.idx,
                                     !.b[b].i = @ + 1]
    /\ PairFrame

\* builder b: Build, from the end of the loop to its return
PairBuildEnd(b) ==
    /\ pair.b[b].pc = "where"
    /\ pair.b[b].i > Len(pair.b[b].qb.conditions)
    /\ LET p == pair.b[b]
           q == PairBuilder(b)
           orderPart == IF Len(q.orderBys) > 0
                        THEN <<" ORDER BY ">> \o BuildOrderLoop(q.dialect, q.orderBys, 1)
                        ELSE <<>>
           limitOffset == GenerateLimitOffset(q.dialect, q.limitVal, q.offsetVal)
           limitPart == IF limitOffset # "" THEN <<" ", limitOffset>> ELSE <<>>
       IN  pair' = [pair EXCEPT !.b[b].pc = "idle", !.b[b].sql = <<>>, !.b[b].args = <<>>,
                                !.b[b].ret = [sql |-> p.sql \o orderPart \o limitPart,
                                              args |-> p.args, err |-> NoErr]]
    /\ PairFrame

NextPair ==
    \E b \in Builders :
        \/ \E k \in 1..Len(SharedConds) : PairWhere(b, k)
        \/ PairLimit(b, 10)
        \/ PairBuildBegin(b)
        \/ PairBuildCondition(b)
        \/ PairBuildEnd(b)

SpecPair == InitPair /\ [][NextPair]_vars

(***************************************************************************)
(* QueryBuilder.Transaction(fn).  txn holds the position of the call (pc),  *)
(* the number of calls made, the number of transactions begun on which      *)
(* neither Commit nor Rollback has been called (pending), and for the       *)
(* latest call: whether Begin succeeded, how often fn was invoked, what a   *)
(* Begin on the transactional builder's repository returned inside fn,      *)
(* how fn ended, the Rollback and Commit calls made and what Transaction    *)
(* returned.  The repository's Begin and the Tx's Commit and Rollback are   *)
(* the adapter's: what they return is an input.  fn is the caller's: it     *)
(* returns nil, returns an error, or panics.                                *)
(***************************************************************************)
BeginErr == "begin failed"
FnErr == "fn failed"
CommitErr == "commit failed"
RollbackErr == "rollback failed"
\* the error of txAdapter.Begin (its text, in English)
NestedErr == "nested transactions are not supported"

NewTransactionState ==
    [pc |-> "idle", calls |-> 0, pending |-> 0, began |-> FALSE, fnCalls |-> 0,
     nested |-> "none", fnOutcome |-> "none", rollbacks |-> 0, commits |-> 0,
     result |-> "none"]

InitTransaction == Idle /\ pair = NoPair /\ call = NoCall /\ txn = NewTransactionState

TransactionFrame == UNCHANGED <<builder, pair, call>>

\* Transaction is called: qb.repo.Begin, and the return when it fails
TransactionBegin(err) ==
    /\ txn.pc = "idle"
    /\ txn.calls < MaxTransactions
    /\ txn' = [NewTransactionState EXCEPT
                   !.calls = txn.calls + 1,
                   !.pending = txn.pending + (IF err = NoErr THEN 1 ELSE 0),
                   !.began = (err = NoErr),
                   !.pc = IF err = NoErr THEN "call fn" ELSE "idle",
                   !.result = IF err = NoErr THEN "none" ELSE err]
    /\ TransactionFrame

\* fn(txQB) is entered
FnInvoke ==
    /\ txn.pc = "call fn"
    /\ txn' = [txn EXCEPT !.pc = "in fn", !.fnCalls = @ + 1]
    /\ TransactionFrame

\* txAdapter.Begin
TxAdapterBegin == NestedErr

\* inside fn: txQB.repo.Begin, on the repository around the txAdapter
FnNestedBegin ==
    /\ txn.pc = "in fn"
    /\ txn.nested = "none"
    /\ txn' = [txn EXCEPT !.nested = TxAdapterBegin]
    /\ TransactionFrame

\* fn ends: it returns nil or an error, or it panics, and the panic leaves
\* Transaction, which defers nothing
FnEnd(outcome) ==
    /\ txn.pc = "in fn"
    /\ txn' = [txn EXCEPT
                   !.fnOutcome = outcome,
                   !.pc = CASE outcome = NoErr -> "commit"
                            [] outcome = Panic -> "idle"
                            [] OTHER -> "rollback",
                   !.result = IF outcome = Panic THEN Panic ELSE @]
    /\ TransactionFrame

\* tx.Rollback, whose error is dropped, and the return of fn's error
TxRollback(err) ==
    /\ txn.pc = "rollback"
    /\ txn' = [txn EXCEPT !.rollbacks = @ + 1, !.pending = @ - 1,
                          !.result = txn.fnOutcome, !.pc = "idle"]
    /\ TransactionFrame

\* return tx.Commit
TxCommit(err) ==
    /\ txn.pc = "commit"
    /\ txn' = [txn EXCEPT !.commits = @ + 1, !.pending = @ - 1,
                          !.result = err, !.pc = "idle"]
    /\ TransactionFrame

NextTransaction ==
    \/ \E err \in {NoErr, BeginErr} : TransactionBegin(err)
    \/ FnInvoke
    \/ FnNestedBegin
    \/ \E outcome \in {NoErr, FnErr, Panic} : FnEnd(outcome)
    \/ \E err \in {NoErr, RollbackErr} : TxRollback(err)
    \/ \E err \in {NoErr, CommitErr} : TxCommit(err)

SpecTransaction == InitTransaction /\ [][NextTransaction]_vars

(***************************************************************************)
(* Reading a built statement.                                               *)
(***************************************************************************)
\* piece is a placeholder token of dialect d
IsPlaceholder(d, piece, maxIndex) == \E n \in 1..maxIndex : piece = GetPlaceholder(d, n)

\* the placeholder tokens of a statement, in text order
Placeholders(d, sql) == SelectSeq(sql, LAMBDA piece : IsPlaceholder(d, piece, Len(sql)))

\* the operand values of a condition tree, left to right
RECURSIVE Operands(_)
RECURSIVE OperandsOfAll(_)
Operands(c) ==
    CASE c.Kind = "SimpleCondition" ->
             IF c.Operator \in {"in", "between"} THEN c.Value.elems ELSE <<c.Value>>
      [] c.Kind = "CompositeCondition" -> OperandsOfAll(c.Conditions)
      [] c.Kind = "NotCondition" -> Operands(c.Condition)
      [] OTHER -> <<>>
OperandsOfAll(cs) == IF cs = <<>> THEN <<>> ELSE Operands(cs[1]) \o OperandsOfAll(Tail(cs))

\* the conditions of a tree: the node itself and every condition nested in it
RECURSIVE Nodes(_)
RECURSIVE NodesOfAll(_)
Nodes(c) ==
    <<c>> \o (CASE c.Kind = "CompositeCondition" -> NodesOfAll(c.Conditions)
                [] c.Kind = "NotCondition" -> Nodes(c.Condition)
                [] OTHER -> <<>>)
NodesOfAll(cs) == IF cs = <<>> THEN <<>> ELSE Nodes(cs[1]) \o NodesOfAll(Tail(cs))

\* some condition held by the builder, at any depth, satisfies P
SomeNode(P(_)) ==
    LET nodes == NodesOfAll(qb.conditions) IN \E i \in 1..Len(nodes) : P(nodes[i])

IsEmptyIn(c) == c.Kind = "SimpleCondition" /\ c.Operator = "in" /\ Len(c.Value.elems) = 0
IsRange(c) == c.Kind = "SimpleCondition" /\ c.Operator = "between"
IsBadRange(c) == IsRange(c) /\ Len(c.Value.elems) # 2

Built == builds > 0
BuiltOk == builds > 0 /\ ret.err = NoErr
Numbered == qb.dialect.name \in {"postgresql", "sqlserver"}

(***************************************************************************)
(* C1.  Whenever Build succeeds, the statement holds as many placeholders   *)
(* as Build returns arguments, and the arguments are the operand values of  *)
(* the conditions in the left-to-right order of their placeholders.         *)
(* The code violates it: a range condition whose operand has one or three   *)
(* elements is rendered with two placeholders and one or three arguments.   *)
(***************************************************************************)
C1_PlaceholdersMatchArguments ==
    BuiltOk =>
        /\ Len(Placeholders(qb.dialect, ret.sql)) = Len(ret.args)
        /\ ret.args = OperandsOfAll(qb.conditions)

(***************************************************************************)
(* C2.  Under PostgreSQL and SQL Server the placeholders of a built         *)
(* statement are, in text order, the tokens numbered 1, 2, ..., k, where k  *)
(* is the number of arguments returned.                                     *)
(* The code violates it on the malformed range conditions of C6.            *)
(***************************************************************************)
C2_NumberedPlaceholdersConsecutive ==
    (BuiltOk /\ Numbered) =>
        Placeholders(qb.dialect, ret.sql)
            = [n \in 1..Len(ret.args) |-> GetPlaceholder(qb.dialect, n)]

(***************************************************************************)
(* C3.  Build is idempotent: a Build that follows a Build with no builder   *)
(* call in between returns the same text, arguments and error.              *)
(***************************************************************************)
C3_BuildIdempotent ==
    [][(builds >= 1 /\ builds' = builds + 1) =>
          /\ ret'.sql = ret.sql
          /\ ret'.args = ret.args
          /\ ret'.err = ret.err]_vars

\* a second Build of a statement with several numbered placeholders
C3_Witness ==
    /\ builds = MaxBuilds
    /\ ret.err = NoErr
    /\ Numbered
    /\ Len(ret.args) >= 3
    /\ Len(qb.conditions) = 2

(***************************************************************************)
(* C4.  Build does not change the builder: columns, conditions, ordering,   *)
(* limit, offset, table and dialect are after Build what they were before,  *)
(* whether Build succeeds or fails.                                         *)
(***************************************************************************)
C4_BuildLeavesBuilderUnchanged ==
    [][builds' = builds + 1 => qb' = qb]_vars

\* a Build that failed, and one before it, on a builder with every field set
C4_Witness ==
    /\ builds = MaxBuilds
    /\ ret.err # NoErr
    /\ Len(qb.conditions) = 2
    /\ qb.selectedCols # <<>>
    /\ qb.orderBys # <<>>
    /\ qb.limitVal # <<>>
    /\ qb.offsetVal # <<>>

(***************************************************************************)
(* C5.  A membership condition with an empty value list makes Build fail.   *)
(* The code violates it: it renders the condition as IN () and returns no   *)
(* error.                                                                   *)
(***************************************************************************)
C5_EmptyInIsAnError ==
    (Built /\ SomeNode(IsEmptyIn)) => ret.err # NoErr

(***************************************************************************)
(* C6.  A range condition whose operand does not have exactly two elements  *)
(* makes Build fail; a range condition that is rendered has two arguments.  *)
(* The code violates it: it never looks at the length of the operand.       *)
(***************************************************************************)
C6_BadRangeIsAnError ==
    (Built /\ SomeNode(IsBadRange)) => ret.err # NoErr

Count(sql, piece) == Len(SelectSeq(sql, LAMBDA x : x = piece))

\* t occurs in s as a contiguous run of pieces
Occurs(t, s) == \E k \in 0..(Len(s) - Len(t)) : SubSeq(s, k + 1, k + Len(t)) = t

\* an opening parenthesis directly followed by a closing one
EmptyGroup(sql) == \E k \in 1..(Len(sql) - 1) : sql[k] = "(" /\ sql[k + 1] = ")"

IsComposite(c) == c.Kind = "CompositeCondition"

\* the texts of the conditions cs, in order, with sep between them
RECURSIVE ChildTexts(_, _, _, _)
ChildTexts(d, cs, sep, idx) ==
    IF cs = <<>> THEN <<>>
    ELSE LET r == Translate(d, cs[1], idx)
         IN  r.sql \o (IF Len(cs) > 1 THEN <<sep>> ELSE <<>>)
                   \o ChildTexts(d, Tail(cs), sep, r.idx)

C8_CompositesParenthesized ==
    BuiltOk =>
        LET d == qb.dialect
            nodes == NodesOfAll(qb.conditions)
        IN  /\ \A i \in 1..Len(nodes) :
                   IsComposite(nodes[i]) =>
                       \E idx \in 1..Len(ret.sql) :
                           LET c == nodes[i]
                               sep == IF c.Operator = "or" THEN " OR " ELSE " AND "
                               text == Translate(d, c, idx).sql
                           IN  /\ text = <<"(">> \o ChildTexts(d, c.Conditions, sep, idx) \o <<")">>
                               /\ Occurs(text, ret.sql)
            /\ Count(ret.sql, "(") = Len(SelectSeq(nodes, IsComposite))

\* a statement with a WhereAny group, a single-child AND nested in it, and a
\* composite nested under a negation
C8_Witness ==
    /\ BuiltOk
    /\ Len(qb.conditions) = 2
    /\ qb.conditions[1] = Or(AnyChildren(MaxChildren))
    /\ qb.conditions[2].Kind = "NotCondition"
    /\ SomeNode(LAMBDA c : IsComposite(c) /\ Len(c.Conditions) = 1)

(***************************************************************************)
(* C9.  The statement a builder yields under MySQL and the one the same     *)
(* builder calls yield under PostgreSQL differ only in the identifier quote *)
(* characters and the placeholder tokens: with every quoted identifier      *)
(* replaced by its bare name in angle brackets and every placeholder by one *)
(* marker the two texts are equal, and so are the arguments.                *)
(***************************************************************************)
Names == {"users", "id", "name", "email", "age", "status"}

\* name between the quote characters of the dialect: backticks, double quotes
QuoteChar(d) == IF d.name = "postgresql" THEN "\"" ELSE Backtick

Quoted(d, name) == QuoteChar(d) \o name \o QuoteChar(d)

NeutralPiece(d, piece, maxIndex) ==
    IF \E name \in Names : piece = Quoted(d, name)
    THEN "<" \o (CHOOSE name \in Names : piece = Quoted(d, name)) \o ">"
    ELSE IF IsPlaceholder(d, piece, maxIndex) THEN "<?>"
    ELSE piece

Neutral(d, sql) == [k \in 1..Len(sql) |-> NeutralPiece(d, sql[k], Len(sql))]

C9_MySQLAndPostgreSQLAgree ==
    (Built /\ qb.dialect.name \in {"mysql", "postgresql"}) =>
        LET other == IF qb.dialect.name = "mysql" THEN NewPostgreSQLDialect ELSE NewMySQLDialect
            o == BuildReturn([qb EXCEPT !.dialect = other])
        IN  /\ Text(Neutral(qb.dialect, ret.sql)) = Text(Neutral(other, o.sql))
            /\ ret.args = o.args
            /\ (ret.err = NoErr) <=> (o.err = NoErr)

\* a MySQL statement with columns, several arguments, ordering and pagination
C9_Witness ==
    /\ BuiltOk
    /\ qb.dialect.name = "mysql"
    /\ Len(ret.args) >= 3
    /\ qb.selectedCols # <<>>
    /\ qb.orderBys # <<>>
    /\ qb.limitVal # <<>>

(***************************************************************************)
(* C10.  Under SQL Server the pagination clause is                          *)
(* OFFSET m ROWS FETCH NEXT n ROWS ONLY with limit n and offset m,          *)
(* OFFSET 0 ROWS FETCH NEXT n ROWS ONLY with limit n alone, OFFSET m ROWS   *)
(* with offset m alone, and no text with neither; the statement ends with   *)
(* a space and that clause.  The clause depends on the values the builder   *)
(* holds, whichever of Limit and Offset was called first.                   *)
(***************************************************************************)
SQLServerClause(limit, offset) ==
    CASE limit # <<>> /\ offset # <<>> ->
             "OFFSET " \o Itoa(offset[1]) \o " ROWS FETCH NEXT " \o Itoa(limit[1]) \o " ROWS ONLY"
      [] limit # <<>> /\ offset = <<>> ->
             "OFFSET 0 ROWS FETCH NEXT " \o Itoa(limit[1]) \o " ROWS ONLY"
      [] limit = <<>> /\ offset # <<>> -> "OFFSET " \o Itoa(offset[1]) \o " ROWS"
      [] OTHER -> ""

\* every clause the model's limits and offsets give
SQLServerClauses ==
    LET limits == {<<>>} \cup {<<n>> : n \in LimitInputs}
        offsets == {<<>>} \cup {<<m>> : m \in OffsetInputs}
    IN  {SQLServerClause(l, o) : l \in limits, o \in offsets} \ {""}

C10_SQLServerPagination ==
    (BuiltOk /\ qb.dialect.name = "sqlserver") =>
        LET clause == SQLServerClause(qb.limitVal, qb.offsetVal)
            n == Len(ret.sql)
        IN  /\ GenerateLimitOffset(qb.dialect, qb.limitVal, qb.offsetVal) = clause
            /\ IF clause = ""
               THEN ret.sql[n] \notin SQLServerClauses
               ELSE ret.sql[n] = clause /\ ret.sql[n - 1] = " "
            /\ (qb.limitVal = <<10>> /\ qb.offsetVal = <<20>>) =>
                   ret.sql[n] = "OFFSET 20 ROWS FETCH NEXT 10 ROWS ONLY"
            /\ (qb.limitVal = <<10>> /\ qb.offsetVal = <<>>) =>
                   ret.sql[n] = "OFFSET 0 ROWS FETCH NEXT 10 ROWS ONLY"

\* a SQL Server statement with a limit and no offset
C10_Witness ==
    /\ BuiltOk
    /\ qb.dialect.name = "sqlserver"
    /\ qb.limitVal = <<10>>
    /\ qb.offsetVal = <<>>
    /\ qb.conditions # <<>>

(***************************************************************************)
(* Pagination clauses as the claims state them.                             *)
(***************************************************************************)
DefaultDialects == {"mysql", "sqlite", "postgresql"}

\* the last piece of the statement Build returned
LastPiece == ret.sql[Len(ret.sql)]

\* the limits and offsets a builder of the model can hold
Limits == {<<>>} \cup {<<n>> : n \in LimitInputs}
Offsets == {<<>>} \cup {<<m>> : m \in OffsetInputs}

\* LIMIT n, OFFSET m, or LIMIT n OFFSET m: the parts that are set, limit first
DefaultClause(limit, offset) ==
    CASE limit # <<>> /\ offset # <<>> -> "LIMIT " \o Itoa(limit[1]) \o " OFFSET " \o Itoa(offset[1])
      [] limit # <<>> /\ offset = <<>> -> "LIMIT " \o Itoa(limit[1])
      [] limit = <<>> /\ offset # <<>> -> "OFFSET " \o Itoa(offset[1])
      [] OTHER -> ""

Clause(d, limit, offset) ==
    IF d.name = "sqlserver" THEN SQLServerClause(limit, offset) ELSE DefaultClause(limit, offset)

\* the clauses, of either syntax, with a limit part and with an offset part
ClausesWithLimit ==
    {DefaultClause(l, o) : l \in Limits \ {<<>>}, o \in Offsets}
        \cup {SQLServerClause(l, o) : l \in Limits \ {<<>>}, o \in Offsets}
ClausesWithOffset ==
    {DefaultClause(l, o) : l \in Limits, o \in Offsets \ {<<>>}}
        \cup {SQLServerClause(l, o) : l \in Limits, o \in Offsets \ {<<>>}}
Clauses == ClausesWithLimit \cup ClausesWithOffset

(***************************************************************************)
(* C11.  Under MySQL, SQLite and PostgreSQL a statement built with an       *)
(* offset set ends with a clause that is not a bare OFFSET m: a LIMIT       *)
(* precedes the OFFSET, and the offset is not dropped.                      *)
(* The code violates it: with only the offset set it emits OFFSET m alone.  *)
(***************************************************************************)
C11_OffsetNeverWithoutLimit ==
    (BuiltOk /\ qb.dialect.name \in DefaultDialects /\ qb.offsetVal # <<>>) =>
        /\ LastPiece \in ClausesWithOffset
        /\ LastPiece \notin {"OFFSET " \o Itoa(m) : m \in OffsetInputs}

(***************************************************************************)
(* C12, as claimed.  In every dialect a statement built with no limit set   *)
(* has no limit part and one built with no offset set has no offset part.   *)
(* The code does not behave so under SQL Server: with only the limit set it *)
(* writes OFFSET 0 ROWS before FETCH NEXT n ROWS ONLY.                      *)
(***************************************************************************)
C12_UnsetPartsAreOmitted ==
    BuiltOk =>
        /\ qb.limitVal = <<>> => LastPiece \notin ClausesWithLimit
        /\ qb.offsetVal = <<>> => LastPiece \notin ClausesWithOffset

(***************************************************************************)
(* C12, amended.  Absence and zero are distinct.  The limit and the offset  *)
(* are absent until a Limit, an Offset call sets them, and Limit(0) and     *)
(* Offset(0) set the value 0.  With neither set the statement ends without  *)
(* pagination text and without a trailing space; otherwise it ends with a   *)
(* space and the clause of the values set, 0 included: under MySQL, SQLite  *)
(* and PostgreSQL the parts set and no other, under SQL Server FETCH NEXT   *)
(* exactly if the limit is set, and OFFSET with the offset set or, when     *)
(* only the limit is set, with a synthesized 0.                             *)
(***************************************************************************)
C12_AbsenceAndZeroAreDistinct ==
    /\ [][/\ qb'.limitVal # qb.limitVal => \E n \in LimitInputs : last' = LimitCall(n)
          /\ qb'.offsetVal # qb.offsetVal => \E m \in OffsetInputs : last' = OffsetCall(m)]_vars
    /\ [](/\ last = LimitCall(0) => qb.limitVal = <<0>>
          /\ last = OffsetCall(0) => qb.offsetVal = <<0>>
          /\ BuiltOk =>
                LET clause == Clause(qb.dialect, qb.limitVal, qb.offsetVal)
                    n == Len(ret.sql)
                IN  /\ (clause = "") <=> (qb.limitVal = <<>> /\ qb.offsetVal = <<>>)
                    /\ IF clause = ""
                       THEN ret.sql[n] \notin Clauses \cup {" ", ""}
                       ELSE ret.sql[n] = clause /\ ret.sql[n - 1] = " "
                    /\ (qb.dialect.name \in DefaultDialects /\ qb.limitVal = <<>>)
                           => ret.sql[n] \notin ClausesWithLimit
                    /\ (qb.dialect.name \in DefaultDialects /\ qb.offsetVal = <<>>)
                           => ret.sql[n] \notin ClausesWithOffset
                    /\ (qb.limitVal = <<0>> /\ qb.offsetVal = <<>>) =>
                           ret.sql[n] = (IF qb.dialect.name = "sqlserver"
                                         THEN "OFFSET 0 ROWS FETCH NEXT 0 ROWS ONLY"
                                         ELSE "LIMIT 0")
                    /\ (qb.limitVal = <<>> /\ qb.offsetVal = <<0>>) =>
                           ret.sql[n] = (IF qb.dialect.name = "sqlserver"
                                         THEN "OFFSET 0 ROWS"
                                         ELSE "OFFSET 0"))

\* Limit(0) as the last call on a builder without offset, built
C12_Witness ==
    /\ last = LimitCall(0)
    /\ BuiltOk
    /\ qb.offsetVal = <<>>
    /\ LastPiece \in {"LIMIT 0", "OFFSET 0 ROWS FETCH NEXT 0 ROWS ONLY"}

(***************************************************************************)
(* C13.  Limit and Offset are last-call-wins and independent: a Limit(n)    *)
(* call leaves the builder with limit n and the offset it had, an           *)
(* Offset(m) call with offset m and the limit it had, whatever they held    *)
(* before; no other call changes either; and Build renders the clause of    *)
(* the values so set.                                                       *)
(***************************************************************************)
C13_LimitOffsetLastCallWins ==
    /\ [][/\ \A n \in LimitInputs :
                last' = LimitCall(n) =>
                    qb'.limitVal = <<n>> /\ qb'.offsetVal = qb.offsetVal
          /\ \A m \in OffsetInputs :
                last' = OffsetCall(m) =>
                    qb'.offsetVal = <<m>> /\ qb'.limitVal = qb.limitVal
          /\ last' = NotPagination =>
                qb'.limitVal = qb.limitVal /\ qb'.offsetVal = qb.offsetVal]_vars
    /\ [](BuiltOk =>
            /\ \A n \in LimitInputs :
                   last = LimitCall(n) => LastPiece = Clause(qb.dialect, <<n>>, qb.offsetVal)
            /\ \A m \in OffsetInputs :
                   last = OffsetCall(m) => LastPiece = Clause(qb.dialect, qb.limitVal, <<m>>))

\* Limit(10) as the last call on a builder that holds the offset 20, built
C13_Witness ==
    /\ last = LimitCall(10)
    /\ BuiltOk
    /\ qb.offsetVal = <<20>>
    /\ qb.limitVal = <<10>>

(***************************************************************************)
(* Identifier quoting as the claims state it: backticks for MySQL and       *)
(* SQLite, double quotes for PostgreSQL, square brackets for SQL Server.    *)
(***************************************************************************)
QuoteOpen(d) ==
    CASE d.name = "postgresql" -> "\""
      [] d.name = "sqlserver" -> "["
      [] OTHER -> Backtick

QuoteClose(d) ==
    CASE d.name = "postgresql" -> "\""
      [] d.name = "sqlserver" -> "]"
      [] OTHER -> Backtick

InQuotes(d, name) == QuoteOpen(d) \o name \o QuoteClose(d)

\* the names, each in the quotes of d and with sep between them
QuotedList(d, names, sep) ==
    [k \in 1..(2 * Len(names) - 1) |->
        IF k % 2 = 1 THEN InQuotes(d, names[(k + 1) \div 2]) ELSE sep]

C15_TopLevelConditionsAndJoined ==
    /\ [][\/ qb'.conditions = qb.conditions
          \/ /\ Len(qb'.conditions) = Len(qb.conditions) + 1
             /\ SubSeq(qb'.conditions, 1, Len(qb.conditions)) = qb.conditions]_vars
    /\ [](BuiltOk =>
            LET conds == qb.conditions
                where == <<" WHERE ">> \o ChildTexts(qb.dialect, conds, " AND ", 1)
                k == IF qb.selectedCols = <<>> THEN 3 ELSE 2 * Len(qb.selectedCols) + 1
            IN  /\ ret.sql[k] = " FROM "
                /\ IF conds = <<>>
                   THEN Count(ret.sql, " WHERE ") = 0 /\ ret.args = <<>>
                   ELSE /\ SubSeq(ret.sql, k + 2, k + 1 + Len(where)) = where
                        /\ Count(ret.sql, " WHERE ") = 1
                        /\ Count(ret.sql, " AND ") + Count(ret.sql, " OR ")
                               = Count(where, " AND ") + Count(where, " OR ")
                /\ ret.args = OperandsOfAll(conds)
                /\ \A i \in 1..Len(conds) :
                       SubSeq(ret.args,
                              Len(OperandsOfAll(SubSeq(conds, 1, i - 1))) + 1,
                              Len(OperandsOfAll(SubSeq(conds, 1, i))))
                           = Operands(conds[i]))

\* two different conditions, the second a group, built with three arguments
C15_Witness ==
    /\ BuiltOk
    /\ Len(qb.conditions) = 2
    /\ qb.conditions[1] = Eq("name", "John")
    /\ qb.conditions[2] = And(AllChildren(MaxChildren))
    /\ Len(ret.args) = 3

(***************************************************************************)
(* C16.  Operand values never reach the text: the builder with every        *)
(* operand value of its conditions replaced by another value, fields,       *)
(* operators, tree shape and list lengths kept, yields the same text and    *)
(* the same outcome and as many arguments; no piece of the text is an       *)
(* operand value.                                                           *)
(***************************************************************************)
OtherValue == V("'; DROP TABLE users; --")

RECURSIVE Revalued(_)
Revalued(c) ==
    CASE c.Kind = "SimpleCondition" ->
             IF c.Operator \in {"in", "between"}
             THEN [c EXCEPT !.Value = Slice([i \in 1..Len(c.Value.elems) |-> OtherValue])]
             ELSE [c EXCEPT !.Value = OtherValue]
      [] c.Kind = "CompositeCondition" ->
             [c EXCEPT !.Conditions = [i \in 1..Len(c.Conditions) |-> Revalued(c.Conditions[i])]]
      [] c.Kind = "NotCondition" -> [c EXCEPT !.Condition = Revalued(c.Condition)]
      [] OTHER -> c

C16_ValuesNeverInText ==
    Built =>
        LET other == [qb EXCEPT !.conditions = [i \in 1..Len(qb.conditions) |-> Revalued(qb.conditions[i])]]
            o == BuildReturn(other)
            values == OperandsOfAll(qb.conditions)
        IN  /\ o.sql = ret.sql
            /\ Text(o.sql) = Text(ret.sql)
            /\ o.err = ret.err
            /\ Len(o.args) = Len(ret.args)
            /\ ret.err = NoErr =>
                   /\ \A i \in 1..Len(o.args) : o.args[i] = OtherValue
                   /\ \A i \in 1..Len(ret.sql), j \in 1..Len(values) :
                          ret.sql[i] # values[j].val /\ ret.sql[i] # "'" \o values[j].val \o "'"

\* a statement with a like condition and three arguments
C16_Witness ==
    /\ BuiltOk
    /\ SomeNode(LAMBDA c : c.Kind = "SimpleCondition" /\ c.Operator = "like")
    /\ Len(ret.args) >= 4

(***************************************************************************)
(* C17.  Every table and column name of a built statement is in the quotes  *)
(* of the bound dialect: the quoted names of the text are, in order, the    *)
(* selected columns, the table, the field of every Simple condition at any  *)
(* depth and the field of every ORDER BY entry; no name stands bare or in   *)
(* the quotes of another dialect.                                           *)
(***************************************************************************)
IsSimple(c) == c.Kind = "SimpleCondition"

\* the names a statement built from q mentions, in text order
NamesOf(q) ==
    LET simple == SelectSeq(NodesOfAll(q.conditions), IsSimple)
    IN  q.selectedCols
            \o <<TableName(q.schema)>>
            \o [i \in 1..Len(simple) |-> simple[i].Field]
            \o [i \in 1..Len(q.orderBys) |-> q.orderBys[i].Field]

C17_EveryNameQuoted ==
    BuiltOk =>
        LET d == qb.dialect
            names == NamesOf(qb)
            quoted == SelectSeq(ret.sql, LAMBDA piece : \E name \in Names : piece = InQuotes(d, name))
        IN  /\ quoted = [k \in 1..Len(names) |-> InQuotes(d, names[k])]
            /\ \A i \in 1..Len(ret.sql) :
                   /\ ret.sql[i] \notin Names
                   /\ \A e \in Dialects, name \in Names :
                          ret.sql[i] = InQuotes(e, name) => InQuotes(e, name) = InQuotes(d, name)

\* a SQL Server statement with columns, a nested condition and an ordering
C17_Witness ==
    /\ BuiltOk
    /\ qb.dialect.name = "sqlserver"
    /\ qb.selectedCols = <<"name", "email">>
    /\ qb.orderBys # <<>>
    /\ Len(qb.conditions) = 2
    /\ qb.conditions[1].Kind = "NotCondition"

(***************************************************************************)
(* C18.  Structurally malformed conditions are rejected: a Simple condition *)
(* with an operator outside eq, ne, gt, lt, gte, lte, in, like, between, a  *)
(* condition of an unknown variant and a Composite without children each    *)
(* translate to an error, and Build on a builder that holds one, at any     *)
(* depth, returns an error and neither text nor arguments.                  *)
(***************************************************************************)
KnownOperators == {"eq", "ne", "gt", "lt", "gte", "lte", "in", "like", "between"}
KnownVariants == {"SimpleCondition", "CompositeCondition", "NotCondition"}

IsMalformed(c) ==
    \/ c.Kind \notin KnownVariants
    \/ c.Kind = "SimpleCondition" /\ c.Operator \notin KnownOperators
    \/ c.Kind = "CompositeCondition" /\ Len(c.Conditions) = 0

C18_MalformedConditionsRejected ==
    Built =>
        LET nodes == NodesOfAll(qb.conditions)
        IN  /\ \A i \in 1..Len(nodes) :
                   IsMalformed(nodes[i]) =>
                       \A idx \in 1..MaxValues : Translate(qb.dialect, nodes[i], idx).err # NoErr
            /\ SomeNode(IsMalformed) =>
                   ret.err \notin {NoErr, Panic} /\ ret.sql = <<>> /\ ret.args = <<>>

\* a failed Build on a well-formed condition and a group that holds, two levels
\* down, a Composite without children
C18_Witness ==
    /\ Built
    /\ ret.err # NoErr
    /\ qb.conditions = <<Eq("name", "John"), Or(<<Eq("status", "active"), Not(And(<<>>))>>)>>

(***************************************************************************)
(* C19.  Build on a builder constructed without a table, on a nil schema or *)
(* on a schema whose table name is empty, returns an error.                 *)
(* The code violates it: with an empty table name Build returns a statement *)
(* with an empty quoted name after FROM and no error; with a nil schema the *)
(* call of TableName panics.                                                *)
(***************************************************************************)
NoTable == qb.schema = NilSchema \/ TableName(qb.schema) = ""

C19_NoTableIsAnError ==
    (Built /\ NoTable) => ret.err \notin {NoErr, Panic}

(***************************************************************************)
(* C20.  A Simple condition of a built statement renders as its quoted      *)
(* field, a space, and: for eq, ne, gt, lt, gte, lte, like the symbol =,    *)
(* !=, >, <, >=, <=, LIKE, a space and one placeholder, with the value as   *)
(* its one argument; for in, IN ( followed by one placeholder per element,  *)
(* separated by ", ", and ), with the elements as arguments in their        *)
(* order.  The placeholders and arguments are those next in turn after the  *)
(* conditions to its left.                                                  *)
(***************************************************************************)
Symbol(operator) ==
    CASE operator = "eq" -> "="
      [] operator = "ne" -> "!="
      [] operator = "gt" -> ">"
      [] operator = "lt" -> "<"
      [] operator = "gte" -> ">="
      [] operator = "lte" -> "<="
      [] operator = "like" -> "LIKE"

\* the placeholders and the arguments a condition takes
Slots(c) ==
    IF ~IsSimple(c) THEN 0
    ELSE CASE c.Operator = "in" -> Len(c.Value.elems)
           [] c.Operator = "between" -> 2
           [] OTHER -> 1
Width(c) == IF IsSimple(c) THEN Len(Operands(c)) ELSE 0

RECURSIVE SlotsBefore(_, _)
SlotsBefore(nodes, i) == IF i = 1 THEN 0 ELSE SlotsBefore(nodes, i - 1) + Slots(nodes[i - 1])
RECURSIVE WidthBefore(_, _)
WidthBefore(nodes, i) == IF i = 1 THEN 0 ELSE WidthBefore(nodes, i - 1) + Width(nodes[i - 1])

\* n placeholders from index idx on, separated by ", "
PlaceholderList(d, n, idx) ==
    [k \in 1..(2 * n - 1) |-> IF k % 2 = 1 THEN GetPlaceholder(d, idx + (k - 1) \div 2) ELSE ", "]

C20_SimpleConditionRendering ==
    BuiltOk =>
        LET d == qb.dialect
            nodes == NodesOfAll(qb.conditions)
        IN  \A i \in 1..Len(nodes) :
                LET c == nodes[i]
                    idx == 1 + SlotsBefore(nodes, i)
                    arg == WidthBefore(nodes, i)
                IN  /\ (IsSimple(c) /\ c.Operator \in {"eq", "ne", "gt", "lt", "gte", "lte", "like"}) =>
                           /\ Occurs(<<InQuotes(d, c.Field), " ", Symbol(c.Operator) \o " ",
                                       GetPlaceholder(d, idx)>>, ret.sql)
                           /\ Translate(d, c, idx).args = <<c.Value>>
                           /\ ret.args[arg + 1] = c.Value
                    /\ (IsSimple(c) /\ c.Operator = "in") =>
                           LET n == Len(c.Value.elems)
                           IN  /\ Occurs(<<InQuotes(d, c.Field), " ", "IN (">>
                                            \o PlaceholderList(d, n, idx) \o <<")">>, ret.sql)
                               /\ SubSeq(ret.args, arg + 1, arg + n) = c.Value.elems

\* a statement with numbered placeholders, a membership list and a group after it
C20_Witness ==
    /\ BuiltOk
    /\ Numbered
    /\ qb.conditions = <<In("age", Vals(MaxValues)), And(AllChildren(MaxChildren))>>

(***************************************************************************)
(* C21.  The placeholder counter belongs to one Build call and the dialect  *)
(* and the Condition values are shared safely: however the calls and the    *)
(* Build steps of two builders on one dialect instance and the same         *)
(* Condition values interleave, what a Build returns is what Build returns  *)
(* for that builder alone, numbered from 1, and no step changes the dialect *)
(* or a shared Condition.                                                   *)
(***************************************************************************)
C21_BuildersDoNotInterfere ==
    /\ [][pair'.dialect = pair.dialect /\ pair'.conds = pair.conds]_vars
    /\ [](\A b \in Builders :
            LET p == pair.b[b]
            IN  /\ p.ret # NoRet =>
                       /\ p.ret = BuildReturn(PairBuilder(b))
                       /\ (p.ret.err = NoErr /\ Len(p.ret.args) > 0) =>
                              Placeholders(pair.dialect, p.ret.sql)[1] = GetPlaceholder(pair.dialect, 1)
                /\ p.pc = "where" => p.argIndex >= FirstArgIndex)

\* builder 1 has built a numbered statement with the shared conditions that
\* builder 2, in the middle of its own Build, is translating
C21_Witness ==
    /\ pair.dialect.name \in {"postgresql", "sqlserver"}
    /\ pair.b[1].ret # NoRet
    /\ pair.b[1].ret.err = NoErr
    /\ Len(pair.b[1].ret.args) >= 4
    /\ pair.b[2].pc = "where"
    /\ pair.b[2].i = 2
    /\ pair.b[2].qb.conditions = pair.b[1].qb.conditions

(***************************************************************************)
(* C22.  The limit and the offset a builder holds are each absent or a      *)
(* non-negative integer, also after Limit or Offset was called with a       *)
(* negative count, and no built statement ends with a clause that holds a   *)
(* negative value.                                                          *)
(* The code violates it: Limit and Offset store the count they are given    *)
(* and the dialects print it.                                               *)
(***************************************************************************)
Negative(v) == v # <<>> /\ v[1] < 0

C22_PaginationNonNegative ==
    /\ ~Negative(qb.limitVal)
    /\ ~Negative(qb.offsetVal)
    /\ BuiltOk =>
           LET signed == {<<>>} \cup {<<n>> : n \in SignedInputs}
               negative == {lo \in signed \X signed : Negative(lo[1]) \/ Negative(lo[2])}
           IN  LastPiece \notin {Clause(qb.dialect, lo[1], lo[2]) : lo \in negative}

(***************************************************************************)
(* C23.  ORDER BY keeps insertion order and emits ASC or DESC only: an      *)
(* OrderBy(f, d) call appends the entry f with DESC if d is desc in any     *)
(* letter case and with ASC otherwise, and no other call changes the        *)
(* entries; Build emits ORDER BY and the entries in order, each as the      *)
(* quoted field, a space and its ASC or DESC, separated by ", "; without    *)
(* entries it emits no ORDER BY.  No direction text of the caller reaches   *)
(* the statement.                                                           *)
(***************************************************************************)
DescSpellings == {"DESC", "desc", "Desc"}
Directions == {"ASC", "DESC"}

DirectionOf(direction) == IF direction \in DescSpellings THEN "DESC" ELSE "ASC"

\* the ORDER BY entries as text: quoted field, space, direction, ", " between
OrderList(d, orderBys) ==
    [k \in 1..(4 * Len(orderBys) - 1) |->
        CASE k % 4 = 1 -> InQuotes(d, orderBys[(k + 3) \div 4].Field)
          [] k % 4 = 2 -> " "
          [] k % 4 = 3 -> orderBys[(k + 3) \div 4].Direction
          [] OTHER -> ", "]

C23_OrderByInsertionOrder ==
    /\ [][/\ \A o \in OrderInputs \cup OrderChainInputs :
                (last' = OrderCall(o[1], o[2]) /\ builds' = 0) =>
                    qb'.orderBys = Append(qb.orderBys,
                                          [Field |-> o[1], Direction |-> DirectionOf(o[2])])
          /\ last' = NotOrder => qb'.orderBys = qb.orderBys]_vars
    /\ [](/\ \A k \in 1..Len(qb.orderBys) : qb.orderBys[k].Direction \in Directions
          /\ BuiltOk =>
                /\ IF qb.orderBys = <<>>
                   THEN Count(ret.sql, " ORDER BY ") = 0
                   ELSE /\ Count(ret.sql, " ORDER BY ") = 1
                        /\ Occurs(<<" ORDER BY ">> \o OrderList(qb.dialect, qb.orderBys), ret.sql)
                /\ \A i \in 1..Len(ret.sql), o \in OrderInputs \cup OrderChainInputs :
                       (ret.sql[i] = o[2] \/ ret.sql[i] = ToUpper(o[2])) => ret.sql[i] \in Directions)

\* OrderBy(name, random) then OrderBy(id, Desc), built
C23_Witness ==
    /\ last = OrderCall("id", "Desc")
    /\ BuiltOk
    /\ qb.orderBys = <<[Field |-> "name", Direction |-> "ASC"], [Field |-> "id", Direction |-> "DESC"]>>

(***************************************************************************)
(* C24.  Clause order is fixed and calls of different kinds commute.  A     *)
(* built statement is SELECT and the columns, FROM and the table, then      *)
(* WHERE, ORDER BY and the pagination clause, in that order, each present   *)
(* exactly if the builder holds columns (else a star), conditions, entries,  *)
(* a limit or an offset; it is a function of what the builder holds of each   *)
(* kind.  A call changes what the builder holds of its own kind only, to a  *)
(* value given by what it held of that kind.  On table users with           *)
(* Where(Eq("name", "John")) alone, PostgreSQL yields                       *)
(* SELECT * FROM "users" WHERE "name" = $1 with the argument John.          *)
(***************************************************************************)
Kinds == {"selectedCols", "conditions", "orderBys", "limitVal", "offsetVal"}

\* the statement of a builder, clause by clause
Statement(q) ==
    LET d == q.dialect
        clause == Clause(d, q.limitVal, q.offsetVal)
    IN  <<"SELECT ">>
            \o (IF q.selectedCols = <<>> THEN <<"*">> ELSE QuotedList(d, q.selectedCols, ", "))
            \o <<" FROM ", InQuotes(d, TableName(q.schema))>>
            \o (IF q.conditions = <<>> THEN <<>>
                ELSE <<" WHERE ">> \o ChildTexts(d, q.conditions, " AND ", 1))
            \o (IF q.orderBys = <<>> THEN <<>>
                ELSE <<" ORDER BY ">> \o OrderList(d, q.orderBys))
            \o (IF clause = "" THEN <<>> ELSE <<" ", clause>>)

C24_ClauseOrderAndCommutation ==
    /\ [][/\ Cardinality({kind \in Kinds : qb'[kind] # qb[kind]}) <= 1
          /\ qb'.schema = qb.schema /\ qb'.dialect = qb.dialect
          /\ qb'.selectedCols # qb.selectedCols =>
                 \E fields \in SelectInputs : qb'.selectedCols = qb.selectedCols \o fields
          /\ qb'.conditions # qb.conditions =>
                 qb.conditions = SubSeq(qb'.conditions, 1, Len(qb'.conditions) - 1)
          /\ qb'.orderBys # qb.orderBys =>
                 qb.orderBys = SubSeq(qb'.orderBys, 1, Len(qb'.orderBys) - 1)
          /\ qb'.limitVal # qb.limitVal => \E n \in LimitInputs : qb'.limitVal = <<n>>
          /\ qb'.offsetVal # qb.offsetVal => \E n \in OffsetInputs : qb'.offsetVal = <<n>>]_vars
    /\ [](BuiltOk =>
            /\ ret.sql = Statement(qb)
            /\ (/\ qb.dialect.name = "postgresql"
                /\ qb.conditions = <<Eq("name", "John")>>
                /\ qb.selectedCols = <<>> /\ qb.orderBys = <<>>
                /\ qb.limitVal = <<>> /\ qb.offsetVal = <<>>) =>
                   /\ Text(ret.sql) = "SELECT * FROM \"users\" WHERE \"name\" = $1"
                   /\ ret.args = <<V("John")>>)

\* a PostgreSQL statement with every clause
C24_Witness ==
    /\ BuiltOk
    /\ qb.dialect.name = "postgresql"
    /\ qb.selectedCols = <<"name", "email">>
    /\ qb.conditions = <<Eq("name", "John")>>
    /\ qb.orderBys # <<>>
    /\ qb.limitVal = <<10>>
    /\ qb.offsetVal = <<20>>

(***************************************************************************)
(* C25.  Where-chain versus WhereAll grouping.  A Where call attaches one   *)
(* top-level condition, and a WhereAll or WhereAny call with conditions     *)
(* attaches exactly one composite holding them.  On a builder with no       *)
(* columns, order or pagination, the chain a, b renders WHERE A AND B with  *)
(* nothing around it, the single composite of WhereAll(a, b) renders        *)
(* WHERE (A AND B), that of WhereAny(a, b) renders WHERE (A OR B), and all  *)
(* three return the operands of a and b as arguments.                       *)
(***************************************************************************)
OnlyConditions(q) ==
    /\ q.selectedCols = <<>> /\ q.orderBys = <<>>
    /\ q.limitVal = <<>> /\ q.offsetVal = <<>>

SelectAllWhere(d) == <<"SELECT ", "*", " FROM ", InQuotes(d, "users"), " WHERE ">>

GroupOf(operator, cs) ==
    [Kind |-> "CompositeCondition", Operator |-> operator, Conditions |-> cs]

C25_WhereChainVersusGroup ==
    /\ [][builds' = 0 =>
            /\ last' = "Where" =>
                   \E i \in 1..Len(GroupPool) :
                       qb'.conditions = Append(qb.conditions, GroupPool[i])
            /\ last' = "WhereAll" =>
                   \E cs \in GroupInputs :
                       qb'.conditions = Append(qb.conditions, GroupOf("and", cs))
            /\ last' = "WhereAny" =>
                   \E cs \in GroupInputs :
                       qb'.conditions = Append(qb.conditions, GroupOf("or", cs))]_vars
    /\ [](BuiltOk /\ OnlyConditions(qb) =>
            \A cs \in GroupInputs :
                LET d == qb.dialect
                IN  /\ qb.conditions = cs =>
                           /\ ret.sql = SelectAllWhere(d) \o ChildTexts(d, cs, " AND ", 1)
                           /\ ret.args = OperandsOfAll(cs)
                    /\ qb.conditions = <<GroupOf("and", cs)>> =>
                           /\ ret.sql = SelectAllWhere(d) \o <<"(">>
                                            \o ChildTexts(d, cs, " AND ", 1) \o <<")">>
                           /\ ret.args = OperandsOfAll(cs)
                    /\ qb.conditions = <<GroupOf("or", cs)>> =>
                           /\ ret.sql = SelectAllWhere(d) \o <<"(">>
                                            \o ChildTexts(d, cs, " OR ", 1) \o <<")">>
                           /\ ret.args = OperandsOfAll(cs))

\* WhereAll(a, b) was the last call and its statement is built
C25_Witness ==
    /\ BuiltOk /\ OnlyConditions(qb)
    /\ last = "WhereAll"
    /\ qb.conditions = <<GroupOf("and", <<GroupPool[1], GroupPool[2]>>)>>

(***************************************************************************)
(* C26.  A negation renders as NOT ( then the child's text then ) and       *)
(* returns the child's arguments; it leaves the placeholder counter where   *)
(* the child left it, the start plus the number of placeholders the child   *)
(* wrote, so the placeholders of a statement whose first condition is a     *)
(* negation are numbered 1, 2, ... without gap; when the child fails, the   *)
(* negation returns the child's error and no SQL.                           *)
(***************************************************************************)
IsNegation(c) == c.Kind = "NotCondition"
Starts == 1..3

C26_NegationWrapsChild ==
    /\ \A k \in 1..Len(NodesOfAll(qb.conditions)), start \in Starts :
           LET d == qb.dialect
               node == NodesOfAll(qb.conditions)[k]
               negation == Translate(d, node, start)
               child == Translate(d, node.Condition, start)
           IN  IsNegation(node) =>
                   IF child.err # NoErr
                   THEN negation.err = child.err /\ negation.sql = <<>> /\ negation.args = <<>>
                   ELSE /\ negation.err = NoErr
                        /\ negation.sql = <<"NOT (">> \o child.sql \o <<")">>
                        /\ negation.args = child.args
                        /\ negation.idx = child.idx
                        /\ negation.idx = start + Len(SelectSeq(child.sql,
                               LAMBDA piece : IsPlaceholder(d, piece, start + Len(child.sql))))
    /\ (BuiltOk /\ Numbered /\ qb.conditions # <<>> /\ IsNegation(qb.conditions[1])) =>
           LET tokens == Placeholders(qb.dialect, ret.sql)
           IN  \A k \in 1..Len(tokens) : tokens[k] = GetPlaceholder(qb.dialect, k)

\* a numbered statement whose negation of three operands precedes a condition
C26_Witness ==
    /\ BuiltOk
    /\ qb.dialect.name = "postgresql"
    /\ Len(qb.conditions) = 2
    /\ IsNegation(qb.conditions[1])
    /\ Len(ret.args) = 4
    /\ Count(ret.sql, "$4") = 1

(***************************************************************************)
(* C27.  Build fails atomically.  Build returns an error exactly when the   *)
(* translation of some top-level condition fails, by itself or through a    *)
(* condition nested in it; it then returns no SQL text and no arguments,    *)
(* whatever the conditions before the failing one produced, and a Build     *)
(* that follows on the same state returns the same.                         *)
(***************************************************************************)
Fails(d, c) == \A start \in Starts : Translate(d, c, start).err # NoErr

C27_BuildFailsAtomically ==
    /\ [][(builds > 0 /\ builds' > builds /\ ret.err # NoErr) => ret' = ret]_vars
    /\ [](Built =>
            /\ ret.err # NoErr <=>
                   \E k \in 1..Len(qb.conditions) : Fails(qb.dialect, qb.conditions[k])
            /\ ret.err # NoErr => ret.sql = <<>> /\ ret.args = <<>>)

\* the second of two failed builds, the failing condition coming after a sound one
C27_Witness ==
    /\ builds = 2
    /\ ret.err # NoErr
    /\ Len(qb.conditions) = 2
    /\ ~Fails(qb.dialect, qb.conditions[1])
    /\ Fails(qb.dialect, qb.conditions[2])

(***************************************************************************)
(* C28.  A built statement has a WHERE clause exactly when the builder      *)
(* holds a top-level condition, and text of a condition follows the WHERE   *)
(* keyword.  Where(nil), WhereAll() and WhereAny() leave the builder as it  *)
(* was, and a builder holding nothing builds SELECT * FROM its table, the   *)
(* statement of a fresh builder, with no arguments.                         *)
(***************************************************************************)
ClauseKeywords == {" FROM ", " WHERE ", " ORDER BY ", " "}

C28_WhereIffConditions ==
    /\ [][(last' \in WhereCalls /\ builds' = 0) => qb' = qb]_vars
    /\ [](BuiltOk =>
            /\ Count(ret.sql, " WHERE ") = (IF qb.conditions = <<>> THEN 0 ELSE 1)
            /\ \A k \in 1..Len(ret.sql) :
                   ret.sql[k] = " WHERE " =>
                       /\ k < Len(ret.sql)
                       /\ ret.sql[k + 1] \notin ClauseKeywords \cup {""}
            /\ (OnlyConditions(qb) /\ qb.conditions = <<>>) =>
                   /\ ret.sql = <<"SELECT ", "*", " FROM ", InQuotes(qb.dialect, "users")>>
                   /\ ret.args = <<>>)

\* a builder whose last call was WhereAny() builds the fresh statement
C28_Witness ==
    /\ BuiltOk
    /\ last = "WhereAny()"
    /\ OnlyConditions(qb) /\ qb.conditions = <<>>

(***************************************************************************)
(* C29.  A dialect's own TranslateCondition behaves like the translator:    *)
(* called with a simple condition and a counter holding i, it returns       *)
(* without failing the text and the arguments the translator produces from  *)
(* index i with that dialect's quoting and placeholders, and leaves the     *)
(* caller's counter advanced by the number of placeholders written.         *)
(***************************************************************************)
C29_DialectTranslatesLikeTranslator ==
    (call.made /\ IsSimple(call.condition)) =>
        LET r == Translate(qb.dialect, call.condition, call.before)
        IN  /\ call.err = r.err
            /\ call.sql = r.sql
            /\ call.args = r.args
            /\ call.argIndex = r.idx

(***************************************************************************)
(* C30.  Transaction ends every transaction it started exactly once.  Once  *)
(* a call is over no begun transaction is left without its Commit or        *)
(* Rollback.  If Begin failed, fn was not invoked and Begin's error is      *)
(* returned; otherwise fn was invoked once and exactly one of Rollback and  *)
(* Commit was called, once: Rollback exactly when fn returned an error,     *)
(* which is returned, Commit exactly when fn returned nil, its result       *)
(* being returned.  A Begin on the transactional builder's repository       *)
(* inside fn returns an error.                                              *)
(***************************************************************************)
C30_TransactionEndsOnce ==
    /\ txn.nested # "none" => txn.nested # NoErr
    /\ (txn.pc = "idle" /\ txn.calls > 0) =>
           /\ txn.pending = 0
           /\ IF ~txn.began
              THEN txn.fnCalls = 0 /\ txn.result = BeginErr
              ELSE /\ txn.fnCalls = 1
                   /\ txn.rollbacks + txn.commits = 1
                   /\ txn.rollbacks = 1 <=> txn.fnOutcome = FnErr
                   /\ txn.rollbacks = 1 => txn.result = FnErr
                   /\ txn.commits = 1 <=> txn.fnOutcome = NoErr
                   /\ txn.commits = 1 => txn.result \in {NoErr, CommitErr}

====
